---- MODULE Spec2Model ----
(***************************************************************************)
(* Model of qiskit.transpiler.passes.scheduling.scheduling.base_scheduler: *)
(* BaseScheduler.__init__, BaseScheduler._get_node_duration, and the       *)
(* earliest-feasible / latest-feasible schedulers and the delay insertion   *)
(* that are built on top of it.                                             *)
(***************************************************************************)
EXTENDS Integers, Sequences, FiniteSets, TLC

VARIABLES
    nodes,          \* dag.topological_op_nodes(): the op nodes in the DAG's order
    op_duration,    \* node.op.duration of every node (mutable attribute)
    calibrations,   \* dag.calibrations, a set of entries (name, key) -> schedule
    bit_index_map,  \* the bit_index_map argument: qubit -> index
    property_set,   \* the pass' property_set (a dict: key -> value)
    warnings,       \* number of UserWarning emitted by BaseScheduler.__init__
    pc,             \* position of the scheduling pipeline
    policy,         \* which run() was used: "asap", "alap" or "none"
    runs,           \* number of BaseScheduler constructions so far
    total_length,   \* total schedule length of the last run
    padding,        \* idle operations inserted by the delay insertion
    last_call,      \* record of the last _get_node_duration call
    first_resolved, \* per node: value of its first successful resolution
    calls           \* number of _get_node_duration calls made directly

vars == <<nodes, op_duration, calibrations, bit_index_map, property_set, warnings,
          pc, policy, runs, total_length, padding, last_call, first_resolved, calls>>

(***************************************************************************)
(* Bounds of the model.                                                    *)
(***************************************************************************)
MaxNodes == 3
MaxLatency == 1
MaxRuns == 2
MaxCalls == 3

\* qc.delay(100, 0) of the docstring example
DelayDuration == 100

Qubits == {"q0", "q1"}
Clbits == {"c0"}
Resources == Qubits \cup Clbits

(***************************************************************************)
(* Python values of a duration: None, a ParameterExpression, or an int.    *)
(***************************************************************************)
None == [kind |-> "None", v |-> 0]
ParameterExpression == [kind |-> "ParameterExpression", v |-> 0]
IntVal(n) == [kind |-> "int", v |-> n]

\* numeric gate parameters: Python ints and floats
PInt(n) == [t |-> "int", v |-> n]
PFloat(n) == [t |-> "float", v |-> n]

\* float(p): the value as a float
Float(p) == [t |-> "float", v |-> p.v]

\* Python == on tuples of numbers: 1 == 1.0
ParamsEq(a, b) == Len(a) = Len(b) /\ \A i \in 1..Len(a) : a[i].v = b[i].v

\* Python == (and hash) on calibration keys (tuple(indices), tuple(params))
KeyEq(k1, k2) == k1[1] = k2[1] /\ ParamsEq(k1[2], k2[2])

\* indices = [bit_index_map[qarg] for qarg in node.qargs]
Indices(node, bim) == [i \in 1..Len(node.qargs) |-> bim[node.qargs[i]]]

\* tuple(float(p) for p in node.op.params)
FloatParams(node) == [i \in 1..Len(node.params) |-> Float(node.params[i])]

\* dag.has_calibration_for(node): the graph carries an entry for the node's
\* operation keyed by (indices of node.qargs, parameters of the node)
HasCalibrationFor(cal, node, bim) ==
    \E e \in cal : e.name = node.name /\ KeyEq(e.key, <<Indices(node, bim), node.params>>)

\* dag.calibrations[node.op.name][cal_key] with
\* cal_key = tuple(indices), tuple(float(p) for p in node.op.params):
\* the entries the lookup finds (none: KeyError)
CalHits(cal, node, bim) ==
    {e \in cal : e.name = node.name /\ KeyEq(e.key, <<Indices(node, bim), FloatParams(node)>>)}

\* the checks that follow the if/else: ParameterExpression, then None, then return;
\* stored is node.op.duration as the if/else left it
CheckDuration(duration, stored) ==
    IF duration.kind = "ParameterExpression"
    THEN [outcome |-> "not bounded", value |-> None, duration |-> stored]
    ELSE IF duration = None
    THEN [outcome |-> "not found", value |-> None, duration |-> stored]
    ELSE [outcome |-> "return", value |-> duration, duration |-> stored]

KeyError(node) == [outcome |-> "KeyError", value |-> None, duration |-> node.duration]

\* variant: the duration stored on the node wins over the calibration
GetNodeDuration_StoredFirst(node, bim, cal) ==
    LET hits == CalHits(cal, node, bim)
    IN  IF HasCalibrationFor(cal, node, bim) /\ node.duration = None
        THEN IF hits = {} THEN KeyError(node)
             ELSE LET duration == (CHOOSE e \in hits : TRUE).duration
                  IN  CheckDuration(duration, duration)
        ELSE CheckDuration(node.duration, node.duration)

\* variant: the ParameterExpression check guards the node's duration only
GetNodeDuration_CheckNodeOnly(node, bim, cal) ==
    LET hits == CalHits(cal, node, bim)
    IN  IF HasCalibrationFor(cal, node, bim)
        THEN IF hits = {} THEN KeyError(node)
             ELSE LET duration == (CHOOSE e \in hits : TRUE).duration
                  IN  [outcome |-> "return", value |-> duration, duration |-> duration]
        ELSE CheckDuration(node.duration, node.duration)

\* variant: the None check looks at the node before the calibration is consulted
GetNodeDuration_NoneFirst(node, bim, cal) ==
    LET hits == CalHits(cal, node, bim)
    IN  IF node.duration = None
        THEN [outcome |-> "not found", value |-> None, duration |-> node.duration]
        ELSE IF HasCalibrationFor(cal, node, bim)
        THEN IF hits = {} THEN KeyError(node)
             ELSE LET duration == (CHOOSE e \in hits : TRUE).duration
                  IN  CheckDuration(duration, duration)
        ELSE CheckDuration(node.duration, node.duration)

\* variant: reading the node's duration consumes it
GetNodeDuration_Consume(node, bim, cal) ==
    LET hits == CalHits(cal, node, bim)
    IN  IF HasCalibrationFor(cal, node, bim)
        THEN IF hits = {} THEN KeyError(node)
             ELSE LET duration == (CHOOSE e \in hits : TRUE).duration
                  IN  CheckDuration(duration, duration)
        ELSE CheckDuration(node.duration, None)

\* variant: a failing call clears the duration stored on the node
GetNodeDuration_ClearOnError(node, bim, cal) ==
    LET hits == CalHits(cal, node, bim)
        r == IF HasCalibrationFor(cal, node, bim)
             THEN IF hits = {} THEN KeyError(node)
                  ELSE LET duration == (CHOOSE e \in hits : TRUE).duration
                       IN  CheckDuration(duration, duration)
             ELSE CheckDuration(node.duration, node.duration)
    IN  IF r.outcome = "return" THEN r ELSE [r EXCEPT !.duration = None]

(***************************************************************************)
(* BaseScheduler._get_node_duration(node, bit_index_map, dag).             *)
(* node carries its op.duration in node.duration.  The result gives the    *)
(* outcome ("return", or the TranspilerError raised, or KeyError), the     *)
(* value returned, and node.op.duration after the call.                    *)
(***************************************************************************)
GetNodeDuration(node, bim, cal) ==
    LET hits == CalHits(cal, node, bim)
    IN  IF HasCalibrationFor(cal, node, bim)
        THEN \* calibration has the highest priority
             IF hits = {} THEN KeyError(node)
             ELSE LET duration == (CHOOSE e \in hits : TRUE).duration
                  IN  \* node.op.duration = duration, then the checks
                      CheckDuration(duration, duration)
        ELSE \* duration = node.op.duration
             CheckDuration(node.duration, node.duration)

\* a DAGOpNode together with the current value of its op.duration
WithDuration(n, d) ==
    [name |-> n.name, qargs |-> n.qargs, params |-> n.params,
     condition |-> n.condition, cargs |-> n.cargs, duration |-> d]

NodeIds == 1..Len(nodes)

NoCall ==
    [node |-> 0, had_cal |-> FALSE, before |-> None, after |-> None,
     outcome |-> "none", value |-> None, prior |-> None]

\* property_set.get("conditional_latency", 0) / .get("clbit_write_latency", 0)
Latencies(cl, wl) == ("conditional_latency" :> cl) @@ ("clbit_write_latency" :> wl)

(***************************************************************************)
(* Specification SpecResolve: direct calls of _get_node_duration on the    *)
(* op node of a one-node DAG, for every stored duration and calibration     *)
(* table of the bounded universe.                                           *)
(***************************************************************************)
ResolveShapes ==
    {[name |-> "cx", qargs |-> qa, params |-> <<>>, condition |-> {}, cargs |-> {}] :
        qa \in {<<"q0", "q1">>, <<"q1", "q0">>}}
    \cup
    {[name |-> "rzx", qargs |-> qa, params |-> <<p>>, condition |-> {}, cargs |-> {}] :
        qa \in {<<"q0", "q1">>, <<"q1", "q0">>}, p \in {PInt(1)}}

\* node.op.duration: None while no duration is attached, a parameterized
\* expression, or a number of dt
StoredDurations == {None, ParameterExpression, IntVal(1)}
\* duration of a calibration (a pulse schedule): a number of dt, or a parameterized
\* expression
CalDurations == {IntVal(3), ParameterExpression}
IndexTuples == {<<0, 1>>, <<1, 0>>}

CalEntries ==
    {[name |-> "cx", key |-> <<ix, <<>> >>, duration |-> d] :
        ix \in IndexTuples, d \in CalDurations}
    \cup
    {[name |-> "rzx", key |-> <<ix, <<p>> >>, duration |-> d] :
        ix \in IndexTuples, p \in {PFloat(1), PFloat(2)}, d \in CalDurations}

\* a dict holds one value per key
IsDict(cal) ==
    \A e1, e2 \in cal : (e1.name = e2.name /\ KeyEq(e1.key, e2.key)) => e1 = e2

CalTables == {c \in SUBSET CalEntries : Cardinality(c) <= 2 /\ IsDict(c)}

IndexMaps == {f \in [Qubits -> {0, 1}] : f["q0"] # f["q1"]}

InitResolve ==
    /\ nodes \in {<<s>> : s \in ResolveShapes}
    /\ op_duration \in [{1} -> StoredDurations]
    /\ calibrations \in CalTables
    /\ bit_index_map \in IndexMaps
    /\ property_set = Latencies(0, 0)
    /\ warnings = 0
    /\ pc = "idle"
    /\ policy = "none"
    /\ runs = 0
    /\ total_length = 0
    /\ padding = {}
    /\ last_call = NoCall
    /\ first_resolved = [n \in {1} |-> None]
    /\ calls = 0

\* one call _get_node_duration(nodes[n], bit_index_map, dag)
Resolve(n) ==
    /\ calls < MaxCalls
    /\ LET node == WithDuration(nodes[n], op_duration[n])
           r == GetNodeDuration(node, bit_index_map, calibrations)
       IN  /\ op_duration' = [op_duration EXCEPT ![n] = r.duration]
           /\ last_call' = [node |-> n,
                            had_cal |-> HasCalibrationFor(calibrations, node, bit_index_map),
                            before |-> op_duration[n],
                            after |-> r.duration,
                            outcome |-> r.outcome,
                            value |-> r.value,
                            prior |-> first_resolved[n]]
           /\ first_resolved' =
                IF r.outcome = "return" /\ first_resolved[n] = None
                THEN [first_resolved EXCEPT ![n] = r.value]
                ELSE first_resolved
    /\ calls' = calls + 1
    /\ UNCHANGED <<nodes, calibrations, bit_index_map, property_set, warnings,
                   pc, policy, runs, total_length, padding>>

NextResolve == \E n \in NodeIds : Resolve(n)

SpecResolve == InitResolve /\ [][NextResolve]_vars

(***************************************************************************)
(* The scheduling pipeline on top of BaseScheduler: construction of the    *)
(* pass, the earliest-feasible (ASAP) and latest-feasible (ALAP) run(),     *)
(* and the delay insertion.                                                 *)
(***************************************************************************)
Max(S) == CHOOSE x \in S : \A y \in S : y <= x

Range(f) == {f[i] : i \in DOMAIN f}

\* the circuit instructions of the docstring examples: delay, x, x.c_if, measure, cx
Delay(q) ==
    [name |-> "delay", qargs |-> <<q>>, params |-> <<PInt(DelayDuration)>>,
     condition |-> {}, cargs |-> {}]
XGate(q, cond) ==
    [name |-> "x", qargs |-> <<q>>, params |-> <<>>, condition |-> cond, cargs |-> {}]
Measure(q, c) ==
    [name |-> "measure", qargs |-> <<q>>, params |-> <<>>, condition |-> {}, cargs |-> {c}]
CXGate ==
    [name |-> "cx", qargs |-> <<"q0", "q1">>, params |-> <<>>, condition |-> {}, cargs |-> {}]

SchedShapes ==
    {Delay("q0"), XGate("q0", {}), XGate("q0", {"c0"}), XGate("q1", {"c0"}),
     Measure("q0", "c0"), Measure("q1", "c0"), CXGate}

\* the duration the upstream TimeUnitConversion attached to node.op
ShapeDuration(s) ==
    CASE s.name = "delay" -> IntVal(DelayDuration)
      [] s.name = "x" -> IntVal(2)
      [] s.name = "measure" -> IntVal(1)
      [] s.name = "cx" -> IntVal(3)

Circuits == UNION {[1..n -> SchedShapes] : n \in 1..MaxNodes}

\* no calibration, a calibration of x on qubit 0, a parameterized one
SchedCalTables ==
    {{}} \cup {{[name |-> "x", key |-> << <<0>>, <<>> >>, duration |-> d]} :
                  d \in {IntVal(1), ParameterExpression}}

\* bit_indices = {q: index for index, q in enumerate(dag.qubits)}
QubitIndex == ("q0" :> 0) @@ ("q1" :> 1)

Init ==
    /\ nodes \in Circuits
    /\ op_duration = [i \in 1..Len(nodes) |-> ShapeDuration(nodes[i])]
    /\ calibrations \in SchedCalTables
    /\ bit_index_map = QubitIndex
    /\ \E cl \in 0..MaxLatency, wl \in 0..MaxLatency : property_set = Latencies(cl, wl)
    /\ warnings = 0
    /\ pc = "idle"
    /\ policy = "none"
    /\ runs = 0
    /\ total_length = 0
    /\ padding = {}
    /\ last_call = NoCall
    /\ first_resolved = [i \in 1..Len(nodes) |-> None]
    /\ calls = 0

Scheduled(ps) == "node_start_time" \in DOMAIN ps

\* variant: the constructor keeps the map of the previous scheduling
InitPropertySet_Keep(ps) ==
    IF Scheduled(ps) THEN ps ELSE ("node_start_time" :> << >>) @@ ps

\* self.property_set["node_start_time"] = dict()
InitPropertySet(ps) == ("node_start_time" :> << >>) @@ ps

\* if "node_start_time" in self.property_set: warnings.warn(...)
InitWarns(ps) == Scheduled(ps)

\* BaseScheduler.__init__(durations)
Construct ==
    /\ pc # "constructed"
    /\ runs < MaxRuns
    /\ warnings' = IF InitWarns(property_set) THEN warnings + 1 ELSE warnings
    /\ property_set' = InitPropertySet(property_set)
    /\ pc' = "constructed"
    /\ runs' = runs + 1
    /\ policy' = "none"
    /\ total_length' = 0
    /\ padding' = {}
    /\ UNCHANGED <<nodes, op_duration, calibrations, bit_index_map,
                   last_call, first_resolved, calls>>

(***************************************************************************)
(* TimingModel: the two latency channels of a condition-resource.          *)
(***************************************************************************)
\* conditionReadyAt = conditionResourceAvailability + conditional_latency
ConditionReadyAt(availability, conditional_latency) == availability + conditional_latency

\* writeVisibleAt(nodeStart, duration) = nodeStart + clbit_write_latency
WriteVisibleAt(nodeStart, duration, clbit_write_latency) == nodeStart + clbit_write_latency

QubitsOf(node) == Range(node.qargs)

\* the resources a node references
Touches(node, r) == r \in QubitsOf(node) \cup node.condition \cup node.cargs

(***************************************************************************)
(* Topological ordering policy on the classical wires: the DAG orders the  *)
(* nodes that share a classical register, also two nodes that only read    *)
(* it, and the scheduler complies with that order.                         *)
(***************************************************************************)
\* variant: a read access leaves the register's availability as it was
ConditionReleasedAt_NoLock(availability, nodeStart) == availability

\* a conditional node holds the register until its read access is over, which is
\* when the node starts
ConditionReleasedAt(availability, nodeStart) == nodeStart

\* a node that writes the register does not store its outcome before the
\* preceding access to the register is over
WriteReadyAt(availability, clbit_write_latency) ==
    Max({0, availability - clbit_write_latency})

(***************************************************************************)
(* ForwardScheduler (earliest-feasible, "ASAP").                           *)
(***************************************************************************)
\* earliestData = max(availability[r] for r in node.data-resources)
EarliestData(node, availability) == Max({availability[q] : q \in QubitsOf(node)})

\* node start: max(earliestData, earliestCond) if conditional, earliestData
\* otherwise; a node that writes a register also waits for the register (ordering
\* policy above)
ForwardStart(node, availability, cl, wl) ==
    Max({EarliestData(node, availability)}
        \cup {ConditionReadyAt(availability[c], cl) : c \in node.condition}
        \cup {WriteReadyAt(availability[c], wl) : c \in node.cargs})

\* variant: a data-resource is released when the node starts
ForwardAvailability_NoDuration(node, availability, start, duration, wl) ==
    [r \in Resources |->
        IF r \in QubitsOf(node) THEN start
        ELSE IF r \in node.cargs THEN WriteVisibleAt(start, duration, wl)
        ELSE IF r \in node.condition THEN ConditionReleasedAt(availability[r], start)
        ELSE availability[r]]

\* availability[r] = start + duration for every data-resource touched;
\* writeVisibleAt(start, duration) for a condition-resource written; a
\* condition-resource read is released by the ordering policy above
ForwardAvailability(node, availability, start, duration, wl) ==
    [r \in Resources |->
        IF r \in QubitsOf(node) THEN start + duration
        ELSE IF r \in node.cargs THEN WriteVisibleAt(start, duration, wl)
        ELSE IF r \in node.condition THEN ConditionReleasedAt(availability[r], start)
        ELSE availability[r]]

\* the state of a pass over the nodes: durations as memoized on the nodes, resource
\* availability, start (or reverse finish) time per visited node, error raised
PassState(durations) ==
    [durations |-> durations, availability |-> [r \in Resources |-> 0],
     time |-> [i \in {} |-> 0], error |-> "none"]

RECURSIVE ForwardPass(_, _, _, _, _, _, _)
\* for node in dag.topological_op_nodes(): resolve duration, start, availability
ForwardPass(i, ns, st, cal, bim, cl, wl) ==
    IF i > Len(ns) \/ st.error # "none" THEN st
    ELSE LET node == WithDuration(ns[i], st.durations[i])
             r == GetNodeDuration(node, bim, cal)
             durations == [st.durations EXCEPT ![i] = r.duration]
         IN  IF r.outcome # "return"
             THEN [st EXCEPT !.durations = durations, !.error = r.outcome]
             ELSE LET start == ForwardStart(node, st.availability, cl, wl)
                  IN  ForwardPass(i + 1, ns,
                          [durations |-> durations,
                           availability |->
                               ForwardAvailability(node, st.availability, start, r.value.v, wl),
                           time |-> (i :> start) @@ st.time,
                           error |-> "none"],
                          cal, bim, cl, wl)

\* total schedule length = max over all resources of (last occupied end time)
TotalLength(availability) == Max({availability[r] : r \in Resources})

\* ForwardScheduler: start time per node, total length, durations memoized
ASAP(ns, durations, cal, bim, cl, wl) ==
    LET st == ForwardPass(1, ns, PassState(durations), cal, bim, cl, wl)
    IN  [start |-> st.time, length |-> TotalLength(st.availability),
         durations |-> st.durations, error |-> st.error]

ConditionalLatency == property_set["conditional_latency"]
ClbitWriteLatency == property_set["clbit_write_latency"]

\* the pass stores its result; a failed duration resolution aborts the run and
\* no partial schedule is returned
StoreResult(res, name) ==
    /\ op_duration' = res.durations
    /\ IF res.error = "none"
       THEN /\ property_set' = ("node_start_time" :> res.start) @@ property_set
            /\ total_length' = res.length
            /\ pc' = "scheduled"
            /\ policy' = name
       ELSE /\ pc' = "failed"
            /\ UNCHANGED <<property_set, total_length, policy>>
    /\ UNCHANGED <<nodes, calibrations, bit_index_map, warnings, runs, padding,
                   last_call, first_resolved, calls>>

\* ForwardScheduler.run(dag)
RunASAP ==
    /\ pc = "constructed"
    /\ StoreResult(ASAP(nodes, op_duration, calibrations, bit_index_map,
                        ConditionalLatency, ClbitWriteLatency), "asap")

(***************************************************************************)
(* BackwardScheduler (latest-feasible, "ALAP"): the topological order      *)
(* reversed, availability counted down from the total length, so that a    *)
(* node's time in the reverse pass is its reverse finish, the distance of   *)
(* its start from the end of the schedule.                                  *)
(***************************************************************************)
\* variant: the latencies are applied as in the forward pass, cl where the register
\* is consumed and wl where it is produced, instead of being mirrored
ReverseFinish_NotMirrored(node, availability, duration, cl, wl) ==
    Max({Max({availability[q] : q \in QubitsOf(node)}) + duration}
        \cup {availability[c] + cl : c \in node.condition}
        \cup {availability[c] : c \in node.cargs})

\* reverse finish of a node: after its data-resources are free for its duration,
\* a read access ends before the later access begins, and a write becomes visible
\* clbit_write_latency after the node's start, before the later access begins
ReverseFinish(node, availability, duration, cl, wl) ==
    Max({Max({availability[q] : q \in QubitsOf(node)}) + duration}
        \cup {availability[c] : c \in node.condition}
        \cup {availability[c] + wl : c \in node.cargs})

\* in reverse time a read access claims the register from conditional_latency before
\* the node's start, a write access from clbit_write_latency after it
ReverseAvailability(node, availability, finish, cl, wl) ==
    [r \in Resources |->
        IF r \in QubitsOf(node) THEN finish
        ELSE IF r \in node.cargs THEN finish - wl
        ELSE IF r \in node.condition THEN finish + cl
        ELSE availability[r]]

RECURSIVE BackwardPass(_, _, _, _, _, _, _)
\* for node in reversed(topological order): resolve duration, reverse finish
BackwardPass(i, ns, st, cal, bim, cl, wl) ==
    IF i < 1 \/ st.error # "none" THEN st
    ELSE LET node == WithDuration(ns[i], st.durations[i])
             r == GetNodeDuration(node, bim, cal)
             durations == [st.durations EXCEPT ![i] = r.duration]
         IN  IF r.outcome # "return"
             THEN [st EXCEPT !.durations = durations, !.error = r.outcome]
             ELSE LET finish == ReverseFinish(node, st.availability, r.value.v, cl, wl)
                  IN  BackwardPass(i - 1, ns,
                          [durations |-> durations,
                           availability |->
                               ReverseAvailability(node, st.availability, finish, cl, wl),
                           time |-> (i :> finish) @@ st.time,
                           error |-> "none"],
                          cal, bim, cl, wl)

\* each node's true start = totalLength - reverseFinish
TrueStart(totalLength, reverseFinish, duration) == totalLength - reverseFinish

\* BackwardScheduler: the total length of the forward schedule, then the reverse pass
ALAP(ns, durations, cal, bim, cl, wl) ==
    LET fwd == ASAP(ns, durations, cal, bim, cl, wl)
        st == BackwardPass(Len(ns), ns, PassState(fwd.durations), cal, bim, cl, wl)
    IN  IF fwd.error # "none" THEN fwd
        ELSE [start |-> [i \in DOMAIN st.time |->
                            TrueStart(fwd.length, st.time[i], st.durations[i].v)],
              length |-> fwd.length,
              durations |-> st.durations, error |-> st.error]

\* BackwardScheduler.run(dag)
RunALAP ==
    /\ pc = "constructed"
    /\ StoreResult(ALAP(nodes, op_duration, calibrations, bit_index_map,
                        ConditionalLatency, ClbitWriteLatency), "alap")

(***************************************************************************)
(* DelayInsertion: fills the idle intervals of the qubit wires.            *)
(***************************************************************************)
NodeStartTime == property_set["node_start_time"]

\* occupancy interval [start, start + duration) of node i
Busy(ns, start, durations, i, r, t) ==
    Touches(ns[i], r) /\ start[i] <= t /\ t < start[i] + durations[i].v

Covered(ns, start, durations, r, t) ==
    \E i \in 1..Len(ns) : Busy(ns, start, durations, i, r, t)

\* the times at which the occupancy of a wire can change; between two
\* consecutive ones it is constant
Breakpoints(ns, start, durations, r, length) ==
    {0, length}
    \cup {start[i] : i \in {j \in 1..Len(ns) : Touches(ns[j], r)}}
    \cup {start[i] + durations[i].v : i \in {j \in 1..Len(ns) : Touches(ns[j], r)}}

\* variant: only the idle intervals after the first node of a wire are filled
IdleIntervals_AfterFirstNode(ns, start, durations, r, length) ==
    LET pts == Breakpoints(ns, start, durations, r, length)
    IN  {[resource |-> r, start |-> a, duration |-> b - a] :
            <<a, b>> \in {ab \in pts \X pts :
                /\ 0 < ab[1] /\ ab[1] < ab[2] /\ ab[2] <= length
                /\ \A t \in pts : (ab[1] <= t /\ t < ab[2]) => ~Covered(ns, start, durations, r, t)
                /\ Covered(ns, start, durations, r, ab[1] - 1)
                /\ (ab[2] = length \/ Covered(ns, start, durations, r, ab[2]))}}

\* every maximal uncovered interval [a, b) of the wire within [0, totalLength)
IdleIntervals(ns, start, durations, r, length) ==
    LET pts == Breakpoints(ns, start, durations, r, length)
    IN  {[resource |-> r, start |-> a, duration |-> b - a] :
            <<a, b>> \in {ab \in pts \X pts :
                /\ 0 <= ab[1] /\ ab[1] < ab[2] /\ ab[2] <= length
                /\ \A t \in pts : (ab[1] <= t /\ t < ab[2]) => ~Covered(ns, start, durations, r, t)
                /\ (ab[1] = 0 \/ Covered(ns, start, durations, r, ab[1] - 1))
                /\ (ab[2] = length \/ Covered(ns, start, durations, r, ab[2]))}}

\* one idle operation per maximal idle interval of every qubit wire; the classical
\* wires carry no delays (docstring figures)
DelayInsertion(ns, start, durations, length) ==
    UNION {IdleIntervals(ns, start, durations, q, length) : q \in Qubits}

\* the delay insertion pass, run after either scheduler
PadDelay ==
    /\ pc = "scheduled"
    /\ padding' = DelayInsertion(nodes, NodeStartTime, op_duration, total_length)
    /\ pc' = "padded"
    /\ UNCHANGED <<nodes, op_duration, calibrations, bit_index_map, property_set,
                   warnings, policy, runs, total_length, last_call, first_resolved, calls>>

Next == Construct \/ RunASAP \/ RunALAP \/ PadDelay

Spec == Init /\ [][Next]_vars

(***************************************************************************)
(* Properties of _get_node_duration, stated on the record of the last call *)
(***************************************************************************)
Called == last_call.node # 0
Raised == Called /\ last_call.outcome # "return"

\* the calibration entries of the called node's operation keyed by
\* (bit_index_map applied to node.qargs in order, node parameters)
CalEntryOf(n) ==
    {e \in calibrations :
        /\ e.name = nodes[n].name
        /\ Len(e.key[1]) = Len(nodes[n].qargs)
        /\ \A i \in 1..Len(nodes[n].qargs) : e.key[1][i] = bit_index_map[nodes[n].qargs[i]]
        /\ Len(e.key[2]) = Len(nodes[n].params)
        /\ \A i \in 1..Len(nodes[n].params) : e.key[2][i].v = nodes[n].params[i].v}

\* the duration the call resolves: the calibration's if there is an entry, else the node's
ResolvedOfLastCall ==
    IF last_call.had_cal
    THEN (CHOOSE e \in CalEntryOf(last_call.node) : TRUE).duration
    ELSE last_call.before

\* C1: for a node with a calibration entry the call returns that entry's duration,
\* whatever the node stored before, and leaves it stored on the node.
C1_CalibrationTakesPrecedence ==
    (Called /\ last_call.had_cal) =>
        /\ Cardinality(CalEntryOf(last_call.node)) = 1
        /\ \A e \in CalEntryOf(last_call.node) :
              /\ last_call.after = e.duration
              /\ e.duration.kind = "int" =>
                    (last_call.outcome = "return" /\ last_call.value = e.duration)
              /\ last_call.outcome = "return" => last_call.value = e.duration

C1_Witness ==
    /\ Called /\ last_call.had_cal
    /\ last_call.outcome = "return"
    /\ last_call.before.kind = "int"
    /\ last_call.before # last_call.value
    /\ op_duration[last_call.node] = last_call.value

\* C2: a symbolic resolved duration, from the calibration or from the node, makes the
\* call fail with the "not bounded" error; no call returns a symbolic value.
C2_SymbolicDurationRaises ==
    Called =>
        /\ ResolvedOfLastCall = ParameterExpression =>
              (last_call.outcome = "not bounded" /\ last_call.value = None)
        /\ last_call.outcome = "not bounded" => ResolvedOfLastCall = ParameterExpression
        /\ last_call.outcome = "return" => last_call.value.kind = "int"

C2_Witness ==
    /\ Called /\ last_call.had_cal
    /\ last_call.outcome = "not bounded"
    /\ last_call.before.kind = "int"

\* C3: the call fails with the "not found" error exactly when the node has no
\* calibration entry and stores None; every other non-symbolic case returns an int.
C3_MissingDurationIff ==
    Called =>
        /\ last_call.outcome = "not found" <=>
              (~last_call.had_cal /\ last_call.before = None)
        /\ (~(~last_call.had_cal /\ last_call.before = None)
              /\ ResolvedOfLastCall # ParameterExpression) =>
              (last_call.outcome = "return" /\ last_call.value.kind = "int"
                 /\ last_call.value = ResolvedOfLastCall)

C3_Witness ==
    /\ Called /\ last_call.outcome = "not found"
    /\ calibrations # {}

\* C9: once a node was resolved successfully, every later resolution of it returns
\* the same value and leaves the duration stored on the node as it was.
C9_ResolvedDurationStable ==
    (Called /\ last_call.prior # None) =>
        /\ last_call.outcome = "return"
        /\ last_call.value = last_call.prior
        /\ last_call.after = last_call.before

C9_Witness ==
    /\ Called /\ last_call.prior # None
    /\ calls = MaxCalls
    /\ last_call.outcome = "return"

\* C10 as stated: a failing call leaves the duration stored on the node unchanged,
\* with or without a calibration entry.
C10_FailureChangesNothing ==
    Raised => last_call.after = last_call.before

\* C10 amended: a failing call on a node without calibration entry leaves the stored
\* duration unchanged; with a calibration entry, the stored duration is the entry's.
C10_FailureFrame ==
    Raised =>
        /\ ~last_call.had_cal => last_call.after = last_call.before
        /\ last_call.had_cal =>
              \A e \in CalEntryOf(last_call.node) : last_call.after = e.duration

C10_Witness ==
    /\ Raised /\ ~last_call.had_cal
    /\ last_call.before = ParameterExpression
    /\ op_duration[last_call.node] = ParameterExpression

(***************************************************************************)
(* Properties of the scheduling pipeline.                                  *)
(***************************************************************************)
HasSchedule == pc \in {"scheduled", "padded"}
StartOf(i) == NodeStartTime[i]
DurationOf(i) == op_duration[i].v
EndOf(i) == StartOf(i) + DurationOf(i)

\* C4: constructing the scheduler when the property set already holds a
\* node_start_time map emits one warning, does not abort and starts from an empty
\* map; without a previous map no warning is emitted.
C4_OverwriteWarning ==
    [][runs' = runs + 1 =>
        /\ Scheduled(property_set) => warnings' = warnings + 1
        /\ ~Scheduled(property_set) => warnings' = warnings
        /\ pc' = "constructed"
        /\ Scheduled(property_set')
        /\ property_set'["node_start_time"] = << >>]_vars

C4_Witness ==
    /\ runs = 2 /\ warnings = 1 /\ pc = "constructed"
    /\ Len(nodes) = 2
    /\ op_duration[1] # ShapeDuration(nodes[1])
    /\ NodeStartTime = << >>

\* i and j are adjacent in the topological order along resource r
Adjacent(i, j, r) ==
    /\ i < j
    /\ Touches(nodes[i], r) /\ Touches(nodes[j], r)
    /\ \A k \in (i + 1)..(j - 1) : ~Touches(nodes[k], r)

\* when node i releases r: a qubit at its end, a register it reads at its start,
\* a register it writes when the write is visible
ReleaseOf(i, r) ==
    IF r \in Qubits THEN EndOf(i)
    ELSE IF r \in nodes[i].condition THEN StartOf(i)
    ELSE StartOf(i) + ClbitWriteLatency

\* when node j begins to use r: a qubit at its start, a register it reads
\* conditional_latency before its start, a register it writes clbit_write_latency
\* after its start
BeginOf(j, r) ==
    IF r \in Qubits THEN StartOf(j)
    ELSE IF r \in nodes[j].condition THEN StartOf(j) - ConditionalLatency
    ELSE StartOf(j) + ClbitWriteLatency

\* delay(100) on q0, then x on q0 and x on q1, both conditioned on c0
DocstringCircuit == <<Delay("q0"), XGate("q0", {"c0"}), XGate("q1", {"c0"})>>

C6_NoDoubleBooking ==
    HasSchedule =>
        /\ \A i \in NodeIds : StartOf(i) >= 0 /\ EndOf(i) <= total_length
        /\ \A i, j \in NodeIds :
              (i # j /\ QubitsOf(nodes[i]) \cap QubitsOf(nodes[j]) # {}) =>
                  (EndOf(i) <= StartOf(j) \/ EndOf(j) <= StartOf(i))

C6_Witness ==
    /\ pc = "scheduled" /\ policy = "alap"
    /\ Len(nodes) = 3
    /\ QubitsOf(nodes[1]) \cap QubitsOf(nodes[2]) # {}
    /\ QubitsOf(nodes[2]) \cap QubitsOf(nodes[3]) # {}
    /\ StartOf(1) > 0
    /\ EndOf(3) = total_length

\* C7: for the same graph and latencies, ALAP starts no node earlier than ASAP does.
C7_ALAPNotEarlier ==
    (HasSchedule /\ policy = "alap") =>
        LET fwd == ASAP(nodes, op_duration, calibrations, bit_index_map,
                        ConditionalLatency, ClbitWriteLatency)
        IN  /\ fwd.error = "none"
            /\ \A i \in NodeIds : StartOf(i) >= fwd.start[i]

C7_Witness ==
    /\ pc = "scheduled" /\ policy = "alap"
    /\ ConditionalLatency > 0 /\ ClbitWriteLatency > 0
    /\ \E i, j \in NodeIds : i < j /\ nodes[i].cargs # {} /\ nodes[j].condition # {}
    /\ LET fwd == ASAP(nodes, op_duration, calibrations, bit_index_map,
                       ConditionalLatency, ClbitWriteLatency)
       IN  /\ \E i \in NodeIds : StartOf(i) > fwd.start[i]
           /\ \E i \in NodeIds : StartOf(i) = fwd.start[i]

\* how many nodes and idle operations occupy resource r at time t
CoverCount(r, t) ==
    Cardinality({i \in NodeIds : Busy(nodes, NodeStartTime, op_duration, i, r, t)})
    + Cardinality({p \in padding :
                      p.resource = r /\ p.start <= t /\ t < p.start + p.duration})

\* the times of [0, totalLength) at which the cover count of r can change: 0 and the
\* starts and ends of the nodes and idle operations on r; the count at any other time
\* is the count at the closest of these before it
ChangeTimes(r) ==
    {t \in {0}
        \cup {StartOf(i) : i \in {j \in NodeIds : Touches(nodes[j], r)}}
        \cup {EndOf(i) : i \in {j \in NodeIds : Touches(nodes[j], r)}}
        \cup {p.start : p \in {x \in padding : x.resource = r}}
        \cup {p.start + p.duration : p \in {x \in padding : x.resource = r}} :
       0 <= t /\ t < total_length}

\* nothing on r lies outside [0, totalLength)
WithinLength(r) ==
    /\ \A i \in NodeIds : Touches(nodes[i], r) => (0 <= StartOf(i) /\ EndOf(i) <= total_length)
    /\ \A p \in padding : p.resource = r => (0 <= p.start /\ p.start + p.duration <= total_length)

\* r is covered exactly once at every time of [0, totalLength)
Partitioned(r) ==
    /\ WithinLength(r)
    /\ \A t \in ChangeTimes(r) : CoverCount(r, t) = 1

\* the start times the scheduler of the last run produced
ScheduledStart ==
    IF policy = "asap"
    THEN ASAP(nodes, op_duration, calibrations, bit_index_map,
              ConditionalLatency, ClbitWriteLatency).start
    ELSE ALAP(nodes, op_duration, calibrations, bit_index_map,
              ConditionalLatency, ClbitWriteLatency).start

====
